---- MODULE Spec2Model ----
(***************************************************************************)
(* Model of the IMU fusion pipeline: the timestamp-keyed Synchronizer,     *)
(* the orchestrator's frame loop (IMUFusionSystem.processDataLoop), the    *)
(* DataAcquisition producers with their stop channel, and the geometric    *)
(* fusion search.                                                          *)
(*                                                                         *)
(* Time is counted in nanoseconds (the resolution of time.Time), so the    *)
(* orchestrator's clamp of a non-positive dt to 1e-9 s is the integer 1.   *)
(* Velocities are held in (acceleration unit * ns) and positions in        *)
(* (acceleration unit * ns^2), which keeps Euler integration exact.        *)
(***************************************************************************)
EXTENDS Integers, Sequences, FiniteSets, Bags, TLC

VARIABLES
    imuCount,       \* IMUFusionSystem.imuCount / DataAcquisition.imuCount
    dataMap,        \* Synchronizer.dataMap : timestamp -> slice of IMUData
    alignedFrames,  \* processDataLoop: frames of the current batch not yet processed
    positions,      \* IMUFusionSystem.positions  (index 0..imuCount-1)
    velocities,     \* IMUFusionSystem.velocities (index 0..imuCount-1)
    lastTime,       \* IMUFusionSystem.lastTime
    cloud,          \* PointCloud.points
    panicked,       \* the Go runtime has aborted the process (index out of range)
    nAdds,          \* number of AddData calls made so far (bounds the run)
    preMap,         \* history: dataMap as it was when the last atomic GetAlignedData began
    lastAligned,    \* history: the value returned by the last atomic GetAlignedData
    delivered,      \* history: all returned frames, in delivery order
    lastFrame,      \* history: the frame most recently handed to the frame body
    preState,       \* history: positions/velocities/cloud before that frame
    entry,          \* who drives the system: "api", "main" (cmd/main.go) or "client"
    mainPc,         \* position of the goroutine that calls Start and Stop
    alive,          \* the process is running (main has not returned)
    clock,          \* time.Now()
    mu,             \* Synchronizer.mu: Unlocked or the goroutine holding it
    prodPc,         \* position of each producer goroutine of DataAcquisition.Start
    prodData,       \* the IMUData a producer built for its pending AddData
    prodSlice,      \* the slice s.dataMap[ts] a producer read inside AddData
    consPc,         \* position of the processDataLoop goroutine
    consTimestamps, \* GetAlignedData: the sorted local slice "timestamps"
    stopChan,       \* DataAcquisition.stopChan: "open" or "closed"
    stopWg,         \* DataAcquisition.stopWg counter
    addedLog,       \* history: bag of the samples of all AddData calls that returned
    fPositions,     \* GeometricFusion2D: the argument "positions"
    fPc,            \* GeometricFusion2D: "idle", "loop" or "done"
    alphaMin,       \* GeometricFusion2D: alphaMin
    alphaMax,       \* GeometricFusion2D: alphaMax
    fused,          \* GeometricFusion2D: fused
    fProbe,         \* history: alpha and result of the last AllCirclesIntersectAtPoint probe
    fSucceeded,     \* history: some probe of this call returned true
    fResult,        \* the value GeometricFusion2D returned
    reference,      \* IMUFusionSystem.reference
    tree,           \* PointCloud.tree
    alignCall,      \* history: the arguments of the frame body's last Procrustes call
    dtUsed,         \* history: the dt the last frame body computed and used
    updates,        \* history: how often the last frame body integrated each sensor
    source,         \* Procrustes: the argument "source"
    target,         \* Procrustes: the argument "target"
    pPc,            \* Procrustes: "call" or "done"
    pResult,        \* the outcome of the Procrustes call
    sinceClear,     \* history: the arguments of the AddPoint calls since the last Clear
    lastQuery       \* history: the last GetPoints, RadiusSearch or refinement and its result

syncVars == <<dataMap, nAdds>>
orchVars == <<alignedFrames, positions, velocities, lastTime, cloud, panicked,
              lastFrame, preState, reference, tree, alignCall, dtUsed, updates>>
drainVars == <<preMap, lastAligned, delivered>>
sysVars == <<entry, mainPc, alive, clock, mu, prodPc, prodData, prodSlice,
             consPc, consTimestamps, stopChan, stopWg, addedLog>>

fusionVars == <<fPositions, fPc, alphaMin, alphaMax, fused, fProbe, fSucceeded,
                fResult>>
alignVars == <<source, target, pPc, pResult>>
cloudVars == <<sinceClear, lastQuery>>
\* the variables of the calls made directly on the library functions
callVars == <<fusionVars, alignVars, cloudVars>>
vars == <<imuCount, syncVars, orchVars, drainVars, sysVars, callVars>>

----------------------------------------------------------------------------
(* Bounds of the model *)

MaxImu == 2
MaxTs == 2
MaxAdds == 3
MaxTicks == 3
MaxClock == 2
MaxCircles == 2
MaxCoord == 2
MaxPts == 2
MaxPoints == 2

\* ids a caller of AddData may pass: IMUID is a plain int, nothing checks it
AnyIds == -1 .. MaxImu
TimeSet == 1 .. MaxTs
AccSet == {<<1, 2>>}

IMUData(id, ts, acc) == [IMUID |-> id, Timestamp |-> ts, Acceleration |-> acc]

----------------------------------------------------------------------------
(* Synchronizer *)

EmptyMap == [t \in {} |-> <<>>]

\* s.dataMap[ts] of a Go map: the nil slice when the key is absent
MapGet(m, ts) == IF ts \in DOMAIN m THEN m[ts] ELSE <<>>

\* s.dataMap[ts] = slice
MapStore(m, ts, slice) ==
    [t \in (DOMAIN m) \cup {ts} |-> IF t = ts THEN slice ELSE m[t]]

\* s.dataMap[data.Timestamp] = append(s.dataMap[data.Timestamp], data)
MapAppend(m, data) ==
    MapStore(m, data.Timestamp, Append(MapGet(m, data.Timestamp), data))

\* delete(s.dataMap, ts)
MapDelete(m, ts) == [t \in (DOMAIN m) \ {ts} |-> m[t]]

SetMin(S) == CHOOSE x \in S : \A y \in S : x <= y

RECURSIVE SortedTimestamps(_)
\* the keys of the map, sorted with Before
SortedTimestamps(S) ==
    IF S = {} THEN <<>>
    ELSE <<SetMin(S)>> \o SortedTimestamps(S \ {SetMin(S)})

RECURSIVE AlignedLoopContinue(_, _, _, _)
\* AlignedLoop with "continue" in place of "break": an incomplete key is
\* skipped and later complete keys are still returned
AlignedLoopContinue(m, timestamps, n, aligned) ==
    IF timestamps = <<>> THEN [aligned |-> aligned, dataMap |-> m]
    ELSE LET ts == Head(timestamps)
             data == m[ts]
         IN IF Len(data) = n
            THEN AlignedLoopContinue(MapDelete(m, ts), Tail(timestamps), n,
                                     Append(aligned, data))
            ELSE AlignedLoopContinue(m, Tail(timestamps), n, aligned)

RECURSIVE AlignedLoopAtLeast(_, _, _, _)
\* a loop that takes a key for complete once it holds n samples or more
AlignedLoopAtLeast(m, timestamps, n, aligned) ==
    IF timestamps = <<>> THEN [aligned |-> aligned, dataMap |-> m]
    ELSE LET ts == Head(timestamps)
             data == m[ts]
         IN IF Len(data) >= n
            THEN AlignedLoopAtLeast(MapDelete(m, ts), Tail(timestamps), n,
                                    Append(aligned, data))
            ELSE [aligned |-> aligned, dataMap |-> m]

RECURSIVE AlignedLoop(_, _, _, _)
\* "for _, ts := range timestamps": complete keys are moved to the result,
\* the first key whose length differs from n ends the loop
AlignedLoop(m, timestamps, n, aligned) ==
    IF timestamps = <<>> THEN [aligned |-> aligned, dataMap |-> m]
    ELSE LET ts == Head(timestamps)
             data == m[ts]
         IN IF Len(data) = n
            THEN AlignedLoop(MapDelete(m, ts), Tail(timestamps), n,
                             Append(aligned, data))
            ELSE [aligned |-> aligned, dataMap |-> m]

GetAlignedDataOf(m, n) == AlignedLoop(m, SortedTimestamps(DOMAIN m), n, <<>>)

----------------------------------------------------------------------------
(* Orchestrator: the body of "for _, frame := range alignedFrames" *)

ZeroPoint == [X |-> 0, Y |-> 0]

\* a dt that is the plain difference, without the clamp
FrameDtUnclamped(now, last) == now - last

\* dt := now.Sub(sys.lastTime); if dt <= 0 { dt = 1e-9 }   (1e-9 s = 1 ns)
FrameDt(now, last) == IF now - last <= 0 THEN 1 ELSE now - last

\* IMU.ApplyCalibration with the NewIMU defaults (offset 0, scale 1)
ApplyCalibration(rawX, rawY) == <<(rawX - 0) * 1, (rawY - 0) * 1>>

\* no sensor has been integrated yet in the frame
NoUpdates(n) == [i \in 0 .. (n - 1) |-> 0]

RECURSIVE IntegrateLoop(_, _, _, _)
\* "for _, data := range frame": st carries positions, velocities, the
\* point cloud and whether the runtime aborted inside the loop
IntegrateLoop(frame, dt, n, st) ==
    IF frame = <<>> \/ st.panicked THEN st
    ELSE LET data == Head(frame)
             imuIndex == data.IMUID
         IN IF imuIndex >= n
            THEN IntegrateLoop(Tail(frame), dt, n, st)          \* continue
            ELSE IF imuIndex < 0
            THEN [st EXCEPT !.panicked = TRUE]                  \* sys.calib[imuIndex]
            ELSE LET a == ApplyCalibration(data.Acceleration[1], data.Acceleration[2])
                     v == [X |-> st.vel[imuIndex].X + a[1] * dt,
                           Y |-> st.vel[imuIndex].Y + a[2] * dt]
                     p == [X |-> st.pos[imuIndex].X + v.X * dt,
                           Y |-> st.pos[imuIndex].Y + v.Y * dt]
                 IN IntegrateLoop(Tail(frame), dt, n,
                        [pos |-> [st.pos EXCEPT ![imuIndex] = p],
                         vel |-> [st.vel EXCEPT ![imuIndex] = v],
                         cloud |-> Append(st.cloud, p),
                         panicked |-> FALSE,
                         updates |-> [st.updates EXCEPT ![imuIndex] = @ + 1]])

OrchState == [pos |-> positions, vel |-> velocities, cloud |-> cloud,
              panicked |-> panicked, updates |-> NoUpdates(imuCount)]

\* d := 1.0, the side of the reference square (the reference is held in its
\* own length unit; the model never mixes it with integrated positions)
RefSide == 1

\* ref := []Point{{0, 0}, {d, 0}, {d, d}, {0, d}}
Reference == <<[X |-> 0, Y |-> 0], [X |-> RefSide, Y |-> 0],
              [X |-> RefSide, Y |-> RefSide], [X |-> 0, Y |-> RefSide]>>

\* PointCloud.tree: nil, or the tree kdtree.New built from a slice of points
NilTree == [built |-> FALSE, points |-> <<>>]
NewTree(pts) == [built |-> TRUE, points |-> pts]

\* currentPositions after the integration loop: make([]Point, imuCount),
\* entry imuIndex overwritten for every sample the loop integrated
\* (slice index i is sequence index i + 1)
CurrentPositions(frame, n, st) ==
    [i \in 1 .. n |->
        IF \E k \in 1 .. Len(frame) : frame[k].IMUID = i - 1
        THEN st.pos[i - 1] ELSE ZeroPoint]

\* no Procrustes call has been made by the frame body
NoCall == [made |-> FALSE, source |-> <<>>, target |-> <<>>]

----------------------------------------------------------------------------
(* Goroutines, mutex, stop channel *)

\* cmd/main.go: internal.NewIMUFusionSystem(4)
MainImuCount == 4

\* goroutine ids: producers are 0..imuCount-1 (their imuID)
Producers == 0 .. (imuCount - 1)
Consumer == -1
\* value of the mutex while unlocked
Unlocked == -2

\* a Lock that does not exclude: it proceeds whoever holds the mutex
CanLockAlways(m) == TRUE

\* sync.Mutex.Lock proceeds only while nobody holds the mutex
CanLock(m) == m = Unlocked

\* a Wait that returns at once, whatever the counter
WaitReturnsAtOnce(wg) == TRUE

\* sync.WaitGroup.Wait returns once the counter is zero
WaitReturns(wg) == wg = 0

\* no goroutine has been started
SysIdle ==
    /\ alive = TRUE
    /\ clock = 1
    /\ mu = Unlocked
    /\ prodPc = [p \in Producers |-> "unstarted"]
    /\ prodData = [p \in Producers |-> IMUData(p, 0, <<0, 0>>)]
    /\ prodSlice = [p \in Producers |-> <<>>]
    /\ consPc = "unstarted"
    /\ consTimestamps = <<>>
    /\ stopChan = "open"
    /\ stopWg = 0
    /\ addedLog = EmptyBag

----------------------------------------------------------------------------
(* Geometric fusion: Distance2D, intersectTwoCircles, isInsideAll,         *)
(* AllCirclesIntersectAtPoint and GeometricFusion2D.                       *)
(*                                                                         *)
(* A float64 length is modelled by an integer number of length units, of   *)
(* which the tolerance epsilon is 8, or by NaN; every operation rounds its *)
(* exact result to the nearest unit, as IEEE arithmetic rounds to the      *)
(* nearest float.  An inflation factor alpha is held as the integer        *)
(* alpha * AlphaOne.  Bisecting [1, 10] down to a width of 1e-4 takes 17   *)
(* halvings, which are exact with AlphaOne = 2^17, as they are in binary   *)
(* floating point.                                                         *)

epsilon == 8

\* the float64 value NaN (the result of 0/0); no length of the model is
\* anywhere near this number
NaN == -1000000000

\* alphaMin's initial value 1.0
AlphaOne == 131072

\* the bracket width 1e-4 is 13.1 in units of 1/AlphaOne; widths are integers
Tolerance == 13

\* F applied to the value of x, computed once: x is a local variable of the
\* code, assigned once and read by the statements F stands for
With(x, F(_)) == CHOOSE z \in {F(u) : u \in {x}} : TRUE

FAdd(x, y) == IF x = NaN \/ y = NaN THEN NaN ELSE x + y

FSub(x, y) == IF x = NaN \/ y = NaN THEN NaN ELSE x - y

FMul(x, y) == IF x = NaN \/ y = NaN THEN NaN ELSE x * y

\* comparisons with NaN are false
FGt(x, y) == x # NaN /\ y # NaN /\ x > y

FLt(x, y) == x # NaN /\ y # NaN /\ x < y

Abs(x) == IF x < 0 THEN -x ELSE x

\* the integer nearest to x / y, for y > 0
RoundDiv(x, y) ==
    LET q == x \div y
        r == x % y
    IN IF 2 * r >= y THEN q + 1 ELSE q

\* x / y: 0/0 is NaN.  (x/0 with x # 0 is an infinity in the code; the only
\* divisor that can be 0 is the distance d of two centres, and with d = 0
\* every coordinate computed from the quotient is NaN as well, because the
\* quotient is multiplied by a coordinate difference that is 0.)
FDiv(x, y) ==
    IF x = NaN \/ y = NaN \/ y = 0 THEN NaN
    ELSE IF y > 0 THEN RoundDiv(x, y) ELSE RoundDiv(-x, -y)

\* math.Max(0, x); Max(0, NaN) = NaN
FMax0(x) == IF x = NaN THEN NaN ELSE IF x > 0 THEN x ELSE 0

RECURSIVE SqrtBits(_, _, _)
\* the largest s = res + (bits up to bit) with s*s <= x
SqrtBits(x, res, bit) ==
    IF bit = 0 THEN res
    ELSE With(<<IF (res + bit) * (res + bit) <= x THEN res + bit ELSE res, bit \div 2>>,
              LAMBDA next : SqrtBits(x, next[1], next[2]))

\* math.Sqrt, correctly rounded
FSqrt(x) ==
    With(x, LAMBDA v :
        IF v = NaN \/ v < 0 THEN NaN
        ELSE With(SqrtBits(v, 0, 16384),
                  LAMBDA s : IF v - s * s > s THEN s + 1 ELSE s))

\* math.Hypot(p, q)
Hypot(p, q) ==
    IF p = NaN \/ q = NaN THEN NaN ELSE With(p * p + q * q, LAMBDA x : FSqrt(x))

Vec2(x, y) == [X |-> x, Y |-> y]

ZeroVec == Vec2(0, 0)

Distance2D(a, b) == Hypot(FSub(a.X, b.X), FSub(a.Y, b.Y))

\* lines 39-61 of intersectTwoCircles, d being known
intersectionPoints(c1, r1, c2, r2, d) ==
    With(FDiv(r1 * r1 - r2 * r2 + d * d, 2 * d), LAMBDA a :
    With(FSqrt(FMax0(FSub(r1 * r1, FMul(a, a)))), LAMBDA h :
    With(FAdd(c1.X, FDiv(FMul(a, c2.X - c1.X), d)), LAMBDA x2 :
    With(FAdd(c1.Y, FDiv(FMul(a, c2.Y - c1.Y), d)), LAMBDA y2 :
    With(Vec2(FAdd(x2, FDiv(FMul(h, c2.Y - c1.Y), d)),
              FSub(y2, FDiv(FMul(h, c2.X - c1.X), d))), LAMBDA p1 :
    With(Vec2(FSub(x2, FDiv(FMul(h, c2.Y - c1.Y), d)),
              FAdd(y2, FDiv(FMul(h, c2.X - c1.X), d))), LAMBDA p2 :
        IF \/ d > r1 + r2 - epsilon
           \/ d < Abs(r1 - r2) + epsilon
           \/ FLt(h, epsilon)
        THEN [count |-> 1, p1 |-> p1, p2 |-> ZeroVec]
        ELSE [count |-> 2, p1 |-> p1, p2 |-> p2]))))))

intersectTwoCircles(c1, r1, c2, r2) ==
    With(Distance2D(c1, c2), LAMBDA d :
        IF \/ d > r1 + r2 + epsilon
           \/ d < Abs(r1 - r2) - epsilon
           \/ (d < epsilon /\ Abs(r1 - r2) > epsilon)
        THEN [count |-> 0, p1 |-> ZeroVec, p2 |-> ZeroVec]
        ELSE intersectionPoints(c1, r1, c2, r2, d))

isInsideAll(p, centers, radii) ==
    \A i \in 1 .. Len(centers) :
        ~FGt(Distance2D(p, centers[i]), radii[i] + epsilon)

RECURSIVE PairsFrom(_, _, _)
\* the index pairs (i, j), i < j, in the order of the two nested loops
PairsFrom(i, j, n) ==
    IF i > n THEN <<>>
    ELSE IF j > n THEN PairsFrom(i + 1, i + 2, n)
    ELSE <<(<<i, j>>)>> \o PairsFrom(i, j + 1, n)

\* the points one pair (i, j) appends to validIntersectionPoints
ValidOfPair(i, j, centers, radii) ==
    With(intersectTwoCircles(centers[i], radii[i], centers[j], radii[j]), LAMBDA r :
        (IF r.count >= 1 /\ isInsideAll(r.p1, centers, radii)
         THEN <<r.p1>> ELSE <<>>)
        \o (IF r.count = 2 /\ isInsideAll(r.p2, centers, radii)
            THEN <<r.p2>> ELSE <<>>))

RECURSIVE ValidPoints(_, _, _)
\* validIntersectionPoints: step 1 of AllCirclesIntersectAtPoint
ValidPoints(pairs, centers, radii) ==
    IF pairs = <<>> THEN <<>>
    ELSE ValidOfPair(Head(pairs)[1], Head(pairs)[2], centers, radii)
         \o ValidPoints(Tail(pairs), centers, radii)

\* one coordinate of fmt.Sprintf("%.9f,%.9f", p.X, p.Y): the sign and the
\* magnitude rounded to 9 decimals, that is to a multiple of epsilon
KeyCoord(x) ==
    IF x = NaN THEN <<0, NaN>>
    ELSE IF x < 0 THEN <<-1, RoundDiv(-x, epsilon)>>
    ELSE <<1, RoundDiv(x, epsilon)>>

Key(p) == <<KeyCoord(p.X), KeyCoord(p.Y)>>

RECURSIVE UniquePoints(_, _)
\* uniquePoints: the first point of every key, in order
UniquePoints(pts, processedKeys) ==
    IF pts = <<>> THEN <<>>
    ELSE IF Key(Head(pts)) \in processedKeys
         THEN UniquePoints(Tail(pts), processedKeys)
         ELSE <<Head(pts)>> \o UniquePoints(Tail(pts), processedKeys \cup {Key(Head(pts))})

RECURSIVE SumCoord(_, _)
SumCoord(pts, k) ==
    IF pts = <<>> THEN 0 ELSE FAdd(SumCoord(Tail(pts), k), Head(pts)[k])

Centroid(pts) ==
    Vec2(FDiv(SumCoord(pts, "X"), Len(pts)), FDiv(SumCoord(pts, "Y"), Len(pts)))

\* step 3: the indices of the circles whose centre is inside all circles
ContainedCircles(centers, radii) ==
    {i \in 1 .. Len(centers) : isInsideAll(centers[i], centers, radii)}

\* containedCircles[0] after sort.Slice by radius (an insertion sort for
\* these lengths, so among equal radii the lowest index stays first)
SmallestContained(containedCircles, radii) ==
    CHOOSE i \in containedCircles :
        \A j \in containedCircles :
            radii[i] < radii[j] \/ (radii[i] = radii[j] /\ i <= j)

\* steps 3 to 5 of AllCirclesIntersectAtPoint
WithoutBoundaryPoint(centers, radii) ==
    With(ContainedCircles(centers, radii), LAMBDA containedCircles :
    With(Centroid(centers), LAMBDA originalCentroid :
        IF containedCircles # {}
        THEN [ok |-> TRUE, p |-> centers[SmallestContained(containedCircles, radii)]]
        ELSE IF isInsideAll(originalCentroid, centers, radii)
             THEN [ok |-> TRUE, p |-> originalCentroid]
             ELSE [ok |-> FALSE, p |-> ZeroVec]))

\* step 2 of AllCirclesIntersectAtPoint, for a non-empty list of valid points
WithBoundaryPoints(uniquePoints, centers, radii) ==
    With(Centroid(uniquePoints), LAMBDA centroid :
        IF Len(uniquePoints) = 1 THEN [ok |-> TRUE, p |-> uniquePoints[1]]
        ELSE IF isInsideAll(centroid, centers, radii)
             THEN [ok |-> TRUE, p |-> centroid]
             ELSE [ok |-> TRUE, p |-> uniquePoints[1]])

AllCirclesIntersectAtPoint(centers, radii) ==
    IF Len(centers) = 0 THEN [ok |-> FALSE, p |-> ZeroVec]
    ELSE IF Len(centers) = 1 THEN [ok |-> TRUE, p |-> centers[1]]
    ELSE With(PairsFrom(1, 2, Len(centers)), LAMBDA pairs :
         With(ValidPoints(pairs, centers, radii), LAMBDA validIntersectionPoints :
         With(UniquePoints(validIntersectionPoints, {}), LAMBDA uniquePoints :
             IF uniquePoints # <<>>
             THEN WithBoundaryPoints(uniquePoints, centers, radii)
             ELSE WithoutBoundaryPoint(centers, radii))))

\* expanded[i] = alpha * radii[i]
Expanded(alpha, r) == RoundDiv(alpha * r, AlphaOne)

Centers(ps) == [i \in 1 .. Len(ps) |-> Vec2(ps[i].X, ps[i].Y)]

Radii(ps) == [i \in 1 .. Len(ps) |-> ps[i].R]

NoProbe == [alpha |-> 0, ok |-> FALSE, p |-> ZeroVec]

NoResult == [alpha |-> 0, pos |-> [X |-> 0, Y |-> 0, R |-> 0]]

\* no GeometricFusion2D call is under way
FusionIdle ==
    /\ fPositions = <<>>
    /\ fPc = "idle"
    /\ alphaMin = AlphaOne
    /\ alphaMax = 10 * AlphaOne
    /\ fused = ZeroVec
    /\ fProbe = NoProbe
    /\ fSucceeded = FALSE
    /\ fResult = NoResult

----------------------------------------------------------------------------
(* Procrustes alignment (internal/procrustes.go).  The function has three  *)
(* results and no error result; it returns normally on every path.  The    *)
(* branch for two or more point pairs goes through the SVD of gonum and is *)
(* not modelled: the calls of the model are invalid or have one point.     *)

\* len(source) == 0 || len(target) == 0 || len(source) != len(target)
ProcrustesInvalid(src, tgt) == Len(src) = 0 \/ Len(tgt) = 0 \/ Len(src) # Len(tgt)

\* "return aligned, centroidTarget, scale": a normal return of three values
Returned(aligned, c, scale) ==
    [status |-> "returned", aligned |-> aligned, centroid |-> c, scale |-> scale]

\* centroid(points) for fewer than two points
PointCentroid(points) == IF Len(points) = 0 THEN ZeroPoint ELSE points[1]

\* Procrustes(source, target) for calls that do not reach the SVD branch
Procrustes(src, tgt) ==
    IF ProcrustesInvalid(src, tgt)
    THEN Returned(<<>>, ZeroPoint, 0)
    ELSE With(PointCentroid(src), LAMBDA centroidSource :
         With(PointCentroid(tgt), LAMBDA centroidTarget :
         With([X |-> centroidTarget.X - centroidSource.X,
               Y |-> centroidTarget.Y - centroidSource.Y], LAMBDA translation :
             Returned(<<[X |-> src[1].X + translation.X,
                         Y |-> src[1].Y + translation.Y]>>,
                      centroidTarget, 1))))

\* no Procrustes call is under way
NoOutcome == [status |-> "none", aligned |-> <<>>, centroid |-> ZeroPoint, scale |-> 0]

AlignIdle ==
    /\ source = <<>>
    /\ target = <<>>
    /\ pPc = "idle"
    /\ pResult = NoOutcome


----------------------------------------------------------------------------
(* PointCloud and the refinement step of the frame body *)

\* x <= y on float64: false when an operand is NaN
FLe(x, y) == x # NaN /\ y # NaN /\ x <= y

\* dx*dx + dy*dy <= r2 for the point pt
InRadius(pt, x, y, r2) ==
    With(FSub(pt.X, x), LAMBDA dx :
    With(FSub(pt.Y, y), LAMBDA dy :
        FLe(FAdd(FMul(dx, dx), FMul(dy, dy)), r2)))

\* the slice PointCloud.RadiusSearch(x, y, radius) returns on pc.points = points
RadiusSearchOf(points, x, y, radius) ==
    With(FMul(radius, radius), LAMBDA r2 :
        SelectSeq(points, LAMBDA pt : InRadius(pt, x, y, r2)))

RECURSIVE SumOf(_, _)
\* sumX (k = "X") or sumY (k = "Y") of "for _, pt := range neighbors"
SumOf(pts, k) == IF pts = <<>> THEN 0 ELSE pts[1][k] + SumOf(Tail(pts), k)

\* finalX, finalY of the refinement for the neighbours found
FinalPosition(neighbors, fusedPos) ==
    With(Len(neighbors), LAMBDA count :
        IF count > 0
        THEN [X |-> FDiv(SumOf(neighbors, "X"), count),
              Y |-> FDiv(SumOf(neighbors, "Y"), count)]
        ELSE [X |-> fusedPos.X, Y |-> fusedPos.Y])

\* sys.positions as the list currentPositions of a frame that integrated
\* every sensor (slice index i is sequence index i + 1)
PositionsList == [i \in 1 .. imuCount |-> positions[i - 1]]

\* the frame body from the Procrustes call to the emitted position, with the
\* two assignments to fused restored that the code holds as comments:
\* fused.X = avgAlignedX / float64(len(aligned)), and the same for Y
EmittedPositionAligned(points, fusedPos, cur, ref) ==
    With(Procrustes(cur, ref).aligned, LAMBDA aligned :
    With([X |-> FDiv(SumOf(aligned, "X"), Len(aligned)),
          Y |-> FDiv(SumOf(aligned, "Y"), Len(aligned)),
          R |-> fusedPos.R], LAMBDA f :
    With(RadiusSearchOf(points, f.X, f.Y, f.R), LAMBDA neighbors :
        [neighbors |-> neighbors, final |-> FinalPosition(neighbors, f)])))

\* the frame body from the Procrustes call to the emitted position:
\* aligned and its sums avgAlignedX, avgAlignedY are computed and not read
EmittedPosition(points, fusedPos, cur, ref) ==
    With(Procrustes(cur, ref).aligned, LAMBDA aligned :
    With([X |-> SumOf(aligned, "X"), Y |-> SumOf(aligned, "Y")], LAMBDA avgAligned :
    With(RadiusSearchOf(points, fusedPos.X, fusedPos.Y, fusedPos.R), LAMBDA neighbors :
        [neighbors |-> neighbors, final |-> FinalPosition(neighbors, fusedPos)])))

\* no query has been made
NoQuery == [op |-> "none", x |-> 0, y |-> 0, radius |-> 0, result |-> <<>>,
            final |-> ZeroPoint]

CloudIdle ==
    /\ sinceClear = <<>>
    /\ lastQuery = NoQuery

----------------------------------------------------------------------------
(* Sequential specification: a client drives the Synchronizer and the      *)
(* orchestrator consumes the frames it returns.                            *)

Init ==
    /\ imuCount \in 1 .. MaxImu
    /\ dataMap = EmptyMap
    /\ alignedFrames = <<>>
    /\ positions = [i \in 0 .. (imuCount - 1) |-> ZeroPoint]
    /\ velocities = [i \in 0 .. (imuCount - 1) |-> ZeroPoint]
    /\ lastTime = 0
    /\ cloud = <<>>
    /\ tree = NilTree
    /\ reference = Reference
    /\ alignCall = NoCall
    /\ panicked = FALSE
    /\ nAdds = 0
    /\ preMap = EmptyMap
    /\ lastAligned = <<>>
    /\ delivered = <<>>
    /\ lastFrame = <<>>
    /\ preState = [pos |-> positions, vel |-> velocities, cloud |-> cloud,
                   panicked |-> FALSE, lastTime |-> 0,
                   updates |-> NoUpdates(imuCount)]
    /\ dtUsed = 0
    /\ updates = NoUpdates(imuCount)
    /\ entry = "api"
    /\ mainPc = "none"
    /\ SysIdle
    /\ FusionIdle
    /\ AlignIdle
    /\ CloudIdle

\* Synchronizer.AddData(data)
AddData ==
    /\ ~panicked
    /\ nAdds < MaxAdds
    /\ \E id \in AnyIds, ts \in TimeSet, acc \in AccSet :
          dataMap' = MapAppend(dataMap, IMUData(id, ts, acc))
    /\ nAdds' = nAdds + 1
    /\ UNCHANGED <<imuCount, callVars, orchVars, drainVars, sysVars>>

\* a ClearData that leaves the newest timestamp in the buffer
ClearDataKeepsNewest ==
    /\ ~panicked
    /\ dataMap' = [ts \in {t \in DOMAIN dataMap : \A u \in DOMAIN dataMap : u <= t}
                      |-> dataMap[ts]]
    /\ UNCHANGED <<imuCount, callVars, nAdds, orchVars, drainVars, sysVars>>

\* Synchronizer.ClearData()
ClearData ==
    /\ ~panicked
    /\ dataMap' = EmptyMap
    /\ UNCHANGED <<imuCount, callVars, nAdds, orchVars, drainVars, sysVars>>

\* alignedFrames := sys.sync.GetAlignedData(sys.imuCount), called by the
\* loop once the previous batch has been processed
GetAlignedData ==
    /\ ~panicked
    /\ alignedFrames = <<>>
    /\ LET r == GetAlignedDataOf(dataMap, imuCount)
       IN /\ dataMap' = r.dataMap
          /\ alignedFrames' = r.aligned
          /\ lastAligned' = r.aligned
          /\ delivered' = delivered \o r.aligned
    /\ preMap' = dataMap
    /\ UNCHANGED <<imuCount, callVars, positions, velocities, lastTime, cloud, panicked,
                   nAdds, lastFrame, preState, reference, tree, alignCall, dtUsed, updates, sysVars>>

\* one iteration of "for _, frame := range alignedFrames"
FrameBody ==
    /\ ~panicked
    /\ alignedFrames # <<>>
    /\ LET frame == Head(alignedFrames)
           now == frame[1].Timestamp
           dt == FrameDt(now, lastTime)
           st == IntegrateLoop(frame, dt, imuCount, OrchState)
       IN /\ lastTime' = now
          /\ positions' = st.pos
          /\ velocities' = st.vel
          /\ cloud' = st.cloud
          /\ tree' = IF st.cloud # cloud THEN NewTree(st.cloud) ELSE tree
          /\ panicked' = st.panicked
          /\ alignCall' = IF st.panicked THEN alignCall
                          ELSE [made |-> TRUE,
                                source |-> CurrentPositions(frame, imuCount, st),
                                target |-> reference]
          /\ lastFrame' = frame
          /\ dtUsed' = dt
          /\ updates' = st.updates
          /\ preState' = [pos |-> positions, vel |-> velocities,
                           cloud |-> cloud, panicked |-> FALSE,
                           lastTime |-> lastTime,
                           updates |-> NoUpdates(imuCount)]
    /\ alignedFrames' = Tail(alignedFrames)
    /\ UNCHANGED <<imuCount, callVars, syncVars, drainVars, reference>>

ProcessFrame == FrameBody /\ UNCHANGED sysVars

Next == AddData \/ ClearData \/ GetAlignedData \/ ProcessFrame

Spec == Init /\ [][Next]_vars

----------------------------------------------------------------------------
(* Concurrent specification: the goroutines started by IMUFusionSystem.Start *)
(* (one producer per IMU, one processDataLoop) and the goroutine that calls  *)
(* Start and then either returns from main or calls Stop.                    *)

\* state after NewIMUFusionSystem(n), before Start
Constructed(n) ==
    /\ imuCount = n
    /\ dataMap = EmptyMap
    /\ alignedFrames = <<>>
    /\ positions = [i \in 0 .. (imuCount - 1) |-> ZeroPoint]
    /\ velocities = [i \in 0 .. (imuCount - 1) |-> ZeroPoint]
    /\ lastTime = 0
    /\ cloud = <<>>
    /\ tree = NilTree
    /\ reference = Reference
    /\ alignCall = NoCall
    /\ panicked = FALSE
    /\ nAdds = 0
    /\ preMap = EmptyMap
    /\ lastAligned = <<>>
    /\ delivered = <<>>
    /\ lastFrame = <<>>
    /\ preState = [pos |-> positions, vel |-> velocities, cloud |-> cloud,
                   panicked |-> FALSE, lastTime |-> 0,
                   updates |-> NoUpdates(imuCount)]
    /\ dtUsed = 0
    /\ updates = NoUpdates(imuCount)
    /\ mainPc = "start"
    /\ SysIdle

\* a client of the package builds a system and will call Start, then Stop
InitSys ==
    /\ entry = "client"
    /\ FusionIdle
    /\ AlignIdle
    /\ CloudIdle
    /\ \E n \in 1 .. MaxImu : Constructed(n)

\* ticks the producers may take in a run: enough for a full frame
TickBound == IF entry = "main" THEN MainImuCount ELSE MaxTicks

\* time passes
ClockTick ==
    /\ clock < MaxClock
    /\ clock' = clock + 1
    /\ UNCHANGED <<imuCount, callVars, syncVars, orchVars, drainVars, entry, mainPc,
                   alive, mu, prodPc, prodData, prodSlice, consPc,
                   consTimestamps, stopChan, stopWg, addedLog>>

\* IMUFusionSystem.Start: DataAcquisition.Start adds imuCount to the wait
\* group and starts the producers, then the processing loop is started
SysStart ==
    /\ alive
    /\ mainPc = "start"
    /\ mainPc' = "running"
    /\ stopWg' = stopWg + imuCount
    /\ prodPc' = [p \in Producers |-> "select"]
    /\ consPc' = "poll"
    /\ UNCHANGED <<imuCount, callVars, syncVars, orchVars, drainVars, entry, alive,
                   clock, mu, prodData, prodSlice, consTimestamps, stopChan,
                   addedLog>>

\* main returns after imuSystem.Start(): the process ends with its goroutines
MainReturn ==
    /\ alive
    /\ mainPc = "running"
    /\ mainPc' = "exited"
    /\ alive' = FALSE
    /\ UNCHANGED <<imuCount, callVars, syncVars, orchVars, drainVars, entry, clock, mu,
                   prodPc, prodData, prodSlice, consPc, consTimestamps,
                   stopChan, stopWg, addedLog>>

\* producer: "case <-ticker.C": build the sample stamped time.Now() and call
\* AddData, which first has to take the mutex
ProducerTick(p) ==
    /\ p \in Producers
    /\ alive
    /\ prodPc[p] = "select"
    /\ nAdds < TickBound
    /\ nAdds' = nAdds + 1
    /\ prodData' = [prodData EXCEPT ![p] = IMUData(p, clock, <<0, 0>>)]
    /\ prodPc' = [prodPc EXCEPT ![p] = "lock"]
    /\ UNCHANGED <<imuCount, callVars, dataMap, orchVars, drainVars, entry, mainPc,
                   alive, clock, mu, prodSlice, consPc, consTimestamps,
                   stopChan, stopWg, addedLog>>

\* AddData: s.mu.Lock(), then the read of s.dataMap[data.Timestamp]
ProducerLock(p) ==
    /\ p \in Producers
    /\ alive
    /\ prodPc[p] = "lock"
    /\ CanLock(mu)
    /\ mu' = p
    /\ prodSlice' = [prodSlice EXCEPT ![p] = MapGet(dataMap, prodData[p].Timestamp)]
    /\ prodPc' = [prodPc EXCEPT ![p] = "store"]
    /\ UNCHANGED <<imuCount, callVars, syncVars, orchVars, drainVars, entry, mainPc,
                   alive, clock, prodData, consPc, consTimestamps, stopChan,
                   stopWg, addedLog>>

\* AddData: the store of the appended slice, then the deferred Unlock
ProducerStore(p) ==
    /\ p \in Producers
    /\ alive
    /\ prodPc[p] = "store"
    /\ dataMap' = MapStore(dataMap, prodData[p].Timestamp,
                           Append(prodSlice[p], prodData[p]))
    /\ mu' = Unlocked
    /\ addedLog' = addedLog (+) SetToBag({prodData[p]})
    /\ prodPc' = [prodPc EXCEPT ![p] = "select"]
    /\ UNCHANGED <<imuCount, callVars, nAdds, orchVars, drainVars, entry, mainPc, alive,
                   clock, prodData, prodSlice, consPc, consTimestamps,
                   stopChan, stopWg>>

\* producer: "case <-da.stopChan: return", with the deferred stopWg.Done()
ProducerExit(p) ==
    /\ p \in Producers
    /\ alive
    /\ prodPc[p] = "select"
    /\ stopChan = "closed"
    /\ prodPc' = [prodPc EXCEPT ![p] = "done"]
    /\ stopWg' = stopWg - 1
    /\ UNCHANGED <<imuCount, callVars, syncVars, orchVars, drainVars, entry, mainPc,
                   alive, clock, mu, prodData, prodSlice, consPc,
                   consTimestamps, stopChan, addedLog>>

\* GetAlignedData: s.mu.Lock() and the collection of the sorted timestamps
ConsumerLock ==
    /\ alive /\ ~panicked
    /\ consPc = "poll"
    /\ CanLock(mu)
    /\ mu' = Consumer
    /\ consTimestamps' = SortedTimestamps(DOMAIN dataMap)
    /\ consPc' = "scan"
    /\ UNCHANGED <<imuCount, callVars, syncVars, orchVars, drainVars,
                   entry, mainPc, alive, clock, prodPc, prodData, prodSlice,
                   stopChan, stopWg, addedLog>>

\* GetAlignedData: the loop over the timestamps, the deferred Unlock and the
\* return; the caller sleeps when nothing came back
ConsumerScan ==
    /\ alive /\ ~panicked
    /\ consPc = "scan"
    /\ LET r == AlignedLoop(dataMap, consTimestamps, imuCount, <<>>)
       IN /\ dataMap' = r.dataMap
          /\ alignedFrames' = r.aligned
          /\ delivered' = delivered \o r.aligned
          /\ consPc' = IF Len(r.aligned) = 0 THEN "sleep" ELSE "range"
    /\ mu' = Unlocked
    /\ consTimestamps' = <<>>
    /\ UNCHANGED <<imuCount, callVars, nAdds, positions, velocities, lastTime, cloud,
                   panicked, lastFrame, preState, reference, tree, alignCall, dtUsed, updates, preMap, lastAligned, entry, mainPc,
                   alive, clock, prodPc, prodData, prodSlice, stopChan,
                   stopWg, addedLog>>

\* time.Sleep(1 * time.Millisecond); continue
ConsumerWake ==
    /\ alive /\ ~panicked
    /\ consPc = "sleep"
    /\ consPc' = "poll"
    /\ UNCHANGED <<imuCount, callVars, syncVars, orchVars, drainVars, entry, mainPc,
                   alive, clock, mu, prodPc, prodData, prodSlice,
                   consTimestamps, stopChan, stopWg, addedLog>>

\* the frame body inside the loop; after the last frame the loop polls again
ConsumerFrame ==
    /\ alive
    /\ consPc = "range"
    /\ FrameBody
    /\ consPc' = IF Tail(alignedFrames) = <<>> THEN "poll" ELSE "range"
    /\ UNCHANGED <<entry, mainPc, alive, clock, mu, prodPc, prodData,
                   prodSlice, consTimestamps, stopChan, stopWg, addedLog>>

\* DataAcquisition.Stop: close(da.stopChan)
StopClose ==
    /\ alive
    /\ mainPc = "running"
    /\ stopChan' = "closed"
    /\ mainPc' = "waiting"
    /\ UNCHANGED <<imuCount, callVars, syncVars, orchVars, drainVars, entry, alive,
                   clock, mu, prodPc, prodData, prodSlice, consPc,
                   consTimestamps, stopWg, addedLog>>

\* DataAcquisition.Stop: da.stopWg.Wait() returns, and with it
\* IMUFusionSystem.Stop
StopWait ==
    /\ alive
    /\ mainPc = "waiting"
    /\ WaitReturns(stopWg)
    /\ mainPc' = "stopped"
    /\ UNCHANGED <<imuCount, callVars, syncVars, orchVars, drainVars, entry, alive,
                   clock, mu, prodPc, prodData, prodSlice, consPc,
                   consTimestamps, stopChan, stopWg, addedLog>>

\* every imuID a producer goroutine can have in some run
GoIds == 0 .. ((IF MaxImu > MainImuCount THEN MaxImu ELSE MainImuCount) - 1)

NextSys ==
    \/ ClockTick
    \/ SysStart
    \/ \E p \in GoIds : ProducerTick(p)
    \/ \E p \in GoIds : ProducerLock(p)
    \/ \E p \in GoIds : ProducerStore(p)
    \/ \E p \in GoIds : ProducerExit(p)
    \/ ConsumerLock
    \/ ConsumerScan
    \/ ConsumerWake
    \/ ConsumerFrame
    \/ StopClose
    \/ StopWait

SpecSys == InitSys /\ [][NextSys]_vars

\* Scheduling: a goroutine holding the mutex eventually releases it and a
\* main goroutine whose Wait can return eventually returns (weak fairness);
\* the producers blocked in Lock are not starved by the consumer taking and
\* releasing the mutex, and selects whose stop case is ready again and again
\* eventually pick it (strong fairness).
SpecSysFair ==
    /\ SpecSys
    /\ WF_vars(\E p \in GoIds : ProducerStore(p))
    /\ SF_vars(\E p \in GoIds : ProducerLock(p))
    /\ SF_vars(\E p \in GoIds : ProducerExit(p))
    /\ WF_vars(ConsumerScan)
    /\ WF_vars(StopWait)

----------------------------------------------------------------------------
(* A client that calls Start, Stop, and then Stop a second time on the     *)
(* same system.                                                            *)

InitStopTwice ==
    /\ entry = "twice"
    /\ FusionIdle
    /\ AlignIdle
    /\ CloudIdle
    /\ \E n \in 1 .. MaxImu : Constructed(n)

\* a second Stop that finds the channel closed and returns
StopAgainReturns ==
    /\ entry = "twice"
    /\ alive
    /\ mainPc = "stopped"
    /\ mainPc' = "stopped twice"
    /\ UNCHANGED <<imuCount, callVars, syncVars, orchVars, drainVars, entry, alive,
                   clock, mu, prodPc, prodData, prodSlice, consPc,
                   consTimestamps, stopChan, stopWg, addedLog>>

\* the second DataAcquisition.Stop: close(da.stopChan); closing a closed
\* channel panics, and the panic of the calling goroutine ends the process
StopAgain ==
    /\ entry = "twice"
    /\ alive
    /\ mainPc = "stopped"
    /\ IF stopChan = "closed"
       THEN /\ panicked' = TRUE
            /\ alive' = FALSE
            /\ mainPc' = "panic"
            /\ UNCHANGED stopChan
       ELSE /\ stopChan' = "closed"
            /\ mainPc' = "waiting"
            /\ UNCHANGED <<panicked, alive>>
    /\ UNCHANGED <<imuCount, callVars, syncVars, drainVars, entry,
                   clock, mu, prodPc, prodData, prodSlice, consPc,
                   consTimestamps, stopWg, addedLog,
                   alignedFrames, positions, velocities, lastTime, cloud,
                   lastFrame, preState, reference, tree, alignCall, dtUsed, updates>>

NextStopTwice == NextSys \/ StopAgain

SpecStopTwice == InitStopTwice /\ [][NextStopTwice]_vars

----------------------------------------------------------------------------
(* The process of cmd/main.go: NewIMUFusionSystem(4), Start, return. *)

InitMain ==
    /\ entry = "main"
    /\ FusionIdle
    /\ AlignIdle
    /\ CloudIdle
    /\ Constructed(MainImuCount)

NextMain ==
    \/ ClockTick
    \/ SysStart
    \/ MainReturn
    \/ \E p \in GoIds : ProducerTick(p)
    \/ \E p \in GoIds : ProducerLock(p)
    \/ \E p \in GoIds : ProducerStore(p)
    \/ ConsumerLock
    \/ ConsumerScan
    \/ ConsumerWake
    \/ ConsumerFrame

SpecMain == InitMain /\ [][NextMain]_vars

----------------------------------------------------------------------------
(* GeometricFusion2D called on a list of position estimates, one action    *)
(* per iteration of its bisection loop.                                    *)

\* the estimates a call is made with: centres on a grid, two radii; the
\* origin of the coordinates is put at the first centre of a call
Estimates ==
    {[X |-> 400 * i, Y |-> 240 * j, R |-> r] :
        i \in 0 .. MaxCoord, j \in 0 .. 1, r \in {40, 200}}

InitFusion ==
    /\ entry = "fusion"
    /\ Constructed(1)
    /\ fPositions \in {ps \in UNION {[1 .. n -> Estimates] : n \in 0 .. MaxCircles} :
                         Len(ps) > 0 => (ps[1].X = 0 /\ ps[1].Y = 0)}
    /\ fPc = "loop"
    /\ alphaMin = AlphaOne
    /\ alphaMax = 10 * AlphaOne
    /\ fused = ZeroVec
    /\ fProbe = NoProbe
    /\ fSucceeded = FALSE
    /\ fResult = NoResult
    /\ AlignIdle
    /\ CloudIdle

\* one iteration of the loop of GeometricFusion2D
FusionProbe ==
    /\ fPc = "loop"
    /\ alphaMax - alphaMin > Tolerance
    /\ \E alpha \in {(alphaMin + alphaMax) \div 2} :
       \E expanded \in {[i \in 1 .. Len(fPositions) |-> Expanded(alpha, fPositions[i].R)]} :
       \E centers \in {Centers(fPositions)} :
       \E res \in {AllCirclesIntersectAtPoint(centers, expanded)} :
          /\ fProbe' = [alpha |-> alpha, ok |-> res.ok, p |-> res.p]
          /\ IF res.ok
             THEN /\ alphaMax' = alpha
                  /\ fused' = res.p
                  /\ fSucceeded' = TRUE
                  /\ UNCHANGED alphaMin
             ELSE /\ alphaMin' = alpha
                  /\ UNCHANGED <<alphaMax, fused, fSucceeded>>
    /\ UNCHANGED <<imuCount, syncVars, orchVars, drainVars, sysVars, alignVars, cloudVars,
                   fPositions, fPc, fResult>>

\* a return that fills the radius field from the other end of the bracket
FusionReturnAlphaMin ==
    /\ fPc = "loop"
    /\ ~(alphaMax - alphaMin > Tolerance)
    /\ fPc' = "done"
    /\ fResult' = [alpha |-> alphaMax,
                   pos |-> [X |-> fused.X, Y |-> fused.Y, R |-> alphaMin]]
    /\ UNCHANGED <<imuCount, syncVars, orchVars, drainVars, sysVars, alignVars, cloudVars,
                   fPositions, alphaMin, alphaMax, fused, fProbe, fSucceeded>>

\* the loop condition fails: return alphaMax, Position{fused.X, fused.Y, alphaMax}
FusionReturn ==
    /\ fPc = "loop"
    /\ ~(alphaMax - alphaMin > Tolerance)
    /\ fPc' = "done"
    /\ fResult' = [alpha |-> alphaMax,
                   pos |-> [X |-> fused.X, Y |-> fused.Y, R |-> alphaMax]]
    /\ UNCHANGED <<imuCount, syncVars, orchVars, drainVars, sysVars, alignVars, cloudVars,
                   fPositions, alphaMin, alphaMax, fused, fProbe, fSucceeded>>

NextFusion == FusionProbe \/ FusionReturn

SpecFusion == InitFusion /\ [][NextFusion]_vars

\* GeometricFusion2D is sequential code: a call that can take its next step
\* takes it
SpecFusionFair == SpecFusion /\ WF_vars(NextFusion)

----------------------------------------------------------------------------
(* Calls of Procrustes on point lists drawn from a small grid *)

GridPoints == {[X |-> x, Y |-> y] : x \in 0 .. 1, y \in 0 .. 1}

PointLists == UNION {[1 .. n -> GridPoints] : n \in 0 .. MaxPts}

InitProcrustes ==
    /\ entry = "procrustes"
    /\ Constructed(1)
    /\ FusionIdle
    /\ CloudIdle
    /\ source \in PointLists
    /\ target \in PointLists
    /\ ProcrustesInvalid(source, target) \/ Len(source) < 2
    /\ pPc = "call"
    /\ pResult = NoOutcome

\* the call runs to its return statement
ProcrustesCall ==
    /\ pPc = "call"
    /\ pPc' = "done"
    /\ pResult' = Procrustes(source, target)
    /\ UNCHANGED <<imuCount, syncVars, orchVars, drainVars, sysVars, fusionVars,
                   cloudVars, source, target>>

NextProcrustes == ProcrustesCall

SpecProcrustes == InitProcrustes /\ [][NextProcrustes]_vars

----------------------------------------------------------------------------
(* A client of one PointCloud: AddPoint, Clear and the queries, and the    *)
(* refinement step of the frame body on a fused estimate drawn from a      *)
(* small set.  Coordinates are multiples of 12 length units.               *)

CloudGrid == {[X |-> 0, Y |-> 0], [X |-> 36, Y |-> 0], [X |-> 36, Y |-> 48]}

QueryX == {0, 36}
QueryRadius == {-60, 0, 36, 60}

\* fused estimates: a point, or the (NaN, NaN) the fusion can return, with
\* the radius field R
FusedSet == {[X |-> c[1], Y |-> c[2], R |-> r] :
                c \in {<<0, 0>>, <<36, 0>>, <<NaN, NaN>>}, r \in {36, 60}}

InitCloud ==
    /\ entry = "cloud"
    /\ Constructed(1)
    /\ FusionIdle
    /\ AlignIdle
    /\ CloudIdle

\* pc.AddPoint(x, y)
AddPoint ==
    /\ Len(cloud) < MaxPoints
    /\ \E pt \in CloudGrid :
          /\ cloud' = Append(cloud, pt)
          /\ tree' = NewTree(Append(cloud, pt))
          /\ sinceClear' = Append(sinceClear, pt)
    /\ UNCHANGED <<imuCount, syncVars, drainVars, sysVars, fusionVars, alignVars,
                   alignedFrames, positions, velocities, lastTime, panicked,
                   lastFrame, preState, reference, alignCall, dtUsed, updates, lastQuery>>

\* a GetPoints whose copy misses the last point
GetPointsShort ==
    /\ lastQuery' = [op |-> "GetPoints", x |-> 0, y |-> 0, radius |-> 0,
                     result |-> [i \in 1 .. (Len(cloud) - 1) |-> cloud[i]],
                     final |-> ZeroPoint]
    /\ UNCHANGED <<imuCount, syncVars, orchVars, drainVars, sysVars, fusionVars,
                   alignVars, sinceClear>>

\* pc.GetPoints()
GetPoints ==
    /\ lastQuery' = [op |-> "GetPoints", x |-> 0, y |-> 0, radius |-> 0,
                     result |-> [i \in 1 .. Len(cloud) |-> cloud[i]],
                     final |-> ZeroPoint]
    /\ UNCHANGED <<imuCount, syncVars, orchVars, drainVars, sysVars, fusionVars,
                   alignVars, sinceClear>>

\* pc.RadiusSearch(x, y, radius)
RadiusSearch ==
    /\ \E x \in QueryX, radius \in QueryRadius :
          lastQuery' = [op |-> "RadiusSearch", x |-> x, y |-> 0, radius |-> radius,
                        result |-> RadiusSearchOf(cloud, x, 0, radius),
                        final |-> ZeroPoint]
    /\ UNCHANGED <<imuCount, syncVars, orchVars, drainVars, sysVars, fusionVars,
                   alignVars, sinceClear>>

\* a Clear that empties the point list and keeps the tree
ClearKeepsTree ==
    /\ cloud' = <<>>
    /\ sinceClear' = <<>>
    /\ UNCHANGED <<imuCount, syncVars, drainVars, sysVars, fusionVars, alignVars,
                   alignedFrames, positions, velocities, lastTime, panicked,
                   lastFrame, preState, reference, alignCall, dtUsed, updates, lastQuery, tree>>

\* pc.Clear()
Clear ==
    /\ cloud' = <<>>
    /\ tree' = NilTree
    /\ sinceClear' = <<>>
    /\ UNCHANGED <<imuCount, syncVars, drainVars, sysVars, fusionVars, alignVars,
                   alignedFrames, positions, velocities, lastTime, panicked,
                   lastFrame, preState, reference, alignCall, dtUsed, updates, lastQuery>>

\* a refinement that emits the fused coordinates whatever the neighbours
RefinementKeepsFused ==
    /\ \E f \in FusedSet :
       \E neighbors \in {RadiusSearchOf(cloud, f.X, f.Y, f.R)} :
          lastQuery' = [op |-> "refine", x |-> f.X, y |-> f.Y, radius |-> f.R,
                        result |-> neighbors,
                        final |-> [X |-> f.X, Y |-> f.Y]]
    /\ UNCHANGED <<imuCount, syncVars, orchVars, drainVars, sysVars, fusionVars,
                   alignVars, sinceClear>>

\* the frame body after the fusion, for the fused estimate f: the Procrustes
\* call and the "Point cloud refinement"
Refinement ==
    /\ \E f \in FusedSet :
       \E emitted \in {EmittedPosition(cloud, f, PositionsList, reference)} :
          lastQuery' = [op |-> "refine", x |-> f.X, y |-> f.Y, radius |-> f.R,
                        result |-> emitted.neighbors,
                        final |-> emitted.final]
    /\ UNCHANGED <<imuCount, syncVars, orchVars, drainVars, sysVars, fusionVars,
                   alignVars, sinceClear>>

NextCloud == AddPoint \/ GetPoints \/ RadiusSearch \/ Clear \/ Refinement

SpecCloud == InitCloud /\ [][NextCloud]_vars

----------------------------------------------------------------------------
(* Properties of the Synchronizer *)

\* the keys of m that are complete together with every earlier key of m
CompletePrefixKeys(m, n) ==
    {t \in DOMAIN m : \A u \in DOMAIN m : u <= t => Len(m[u]) = n}

\* res is the ascending run of the keys of m that are complete together
\* with all earlier keys, and is empty when the earliest key is incomplete
IsCompletePrefix(m, n, res) ==
    LET K == CompletePrefixKeys(m, n)
    IN /\ Len(res) = Cardinality(K)
       /\ \A t \in K : res[Cardinality({u \in K : u <= t})] = m[t]
       /\ (DOMAIN m # {} /\ Len(m[SetMin(DOMAIN m)]) # n) => res = <<>>

\* C1: GetAlignedData(n) returns exactly the longest prefix, in ascending
\* timestamp order, of the buffered keys that each hold n samples; a complete
\* key behind an incomplete one is not returned, and nothing is returned
\* when the earliest buffered key is incomplete.
C1_LongestCompletePrefix == IsCompletePrefix(preMap, imuCount, lastAligned)

\* a call found a complete key behind an incomplete one and left it buffered
C1_Witness ==
    /\ nAdds > 0
    /\ \E t \in DOMAIN preMap :
          /\ Len(preMap[t]) = imuCount
          /\ t \notin CompletePrefixKeys(preMap, imuCount)

\* C2: the timestamps of the frames delivered over all GetAlignedData calls
\* are strictly increasing, so no timestamp is delivered twice or after a
\* later one.
C2_DeliveryStrictlyIncreasing ==
    \A i, j \in 1 .. Len(delivered) :
        i < j => delivered[i][1].Timestamp < delivered[j][1].Timestamp

\* C3: every returned frame holds exactly one sample for each sensor id
\* 0..n-1.
C3_OneSamplePerSensor ==
    \A f \in 1 .. Len(lastAligned) :
        \A s \in 0 .. (imuCount - 1) :
            Cardinality({k \in 1 .. Len(lastAligned[f]) :
                            lastAligned[f][k].IMUID = s}) = 1

\* C5: a frame with timestamp T or later is returned only if every sensor
\* has supplied its sample for every buffered timestamp up to it; a key
\* that still lacks some sensor's sample holds back itself and all later
\* keys.
C5_MissingSensorStalls ==
    \A f \in 1 .. Len(lastAligned) :
        \A T \in DOMAIN preMap :
            T <= lastAligned[f][1].Timestamp =>
                \A s \in 0 .. (imuCount - 1) :
                    \E k \in 1 .. Len(preMap[T]) : preMap[T][k].IMUID = s

----------------------------------------------------------------------------
(* Properties of the goroutines *)

Count(seq, x) == Cardinality({i \in 1 .. Len(seq) : seq[i] = x})

\* number of occurrences of x in the returned frames
ReturnedCount(x) ==
    Cardinality({fk \in (1 .. Len(delivered)) \X (1 .. MainImuCount + MaxImu) :
                    /\ fk[2] <= Len(delivered[fk[1]])
                    /\ delivered[fk[1]][fk[2]] = x})

ProducedSamples ==
    {IMUData(p, t, <<0, 0>>) : p \in Producers, t \in 1 .. MaxClock}

\* every sample whose AddData has returned is buffered under its timestamp
\* key or in exactly one returned frame, and nothing else is
NoAddLostOrDuplicated ==
    /\ \A t \in DOMAIN dataMap :
          \A k \in 1 .. Len(dataMap[t]) :
              dataMap[t][k] \in ProducedSamples /\ dataMap[t][k].Timestamp = t
    /\ \A x \in ProducedSamples :
          CopiesIn(x, addedLog)
             = Count(MapGet(dataMap, x.Timestamp), x) + ReturnedCount(x)

\* while GetAlignedData holds the mutex nobody else changes the map, and
\* what it returns is the complete prefix of that one map
DrainSawSnapshot ==
    consPc = "scan" =>
        /\ consPc' = "scan" => dataMap' = dataMap
        /\ consPc' # "scan" => IsCompletePrefix(dataMap, imuCount, alignedFrames')

\* C4: with producers and the consumer interleaved, every AddData and
\* GetAlignedData takes effect atomically under the mutex: no added sample
\* is lost or duplicated, a drain returns the complete prefix of one
\* snapshot of the map, and a frame once returned never changes.
C4_AtomicUnderMutex ==
    /\ []NoAddLostOrDuplicated
    /\ [][DrainSawSnapshot]_vars
    /\ [][\A i \in 1 .. Len(delivered) : delivered'[i] = delivered[i]]_vars

\* a producer waits for the mutex while the consumer drains, after a frame
\* has already been returned and with a sample still buffered
C4_Witness ==
    /\ consPc = "scan"
    /\ \E p \in Producers : prodPc[p] = "lock"
    /\ delivered # <<>>
    /\ dataMap # EmptyMap

C7_IdleWaitRechecksStop ==
    [][(mainPc = "stopped" /\ consPc = "sleep") => consPc' # "poll"]_vars

\* C8: once main has started the system it stays alive; without an external
\* stop the process has no terminal state.
C8_ProcessStaysAlive ==
    mainPc # "start" => (alive /\ mainPc = "running")

----------------------------------------------------------------------------
(* Properties of the orchestrator's frame body *)

InRange(d) == d.IMUID >= 0 /\ d.IMUID < imuCount

\* C9: a sample whose sensor id is outside 0..imuCount-1 (too large or
\* negative) is dropped: the frame has the effect of its in-range samples
\* alone, and the process never fails.
C9_OutOfRangeSampleDropped ==
    /\ ~panicked
    /\ lastFrame # <<>> =>
          LET dt == FrameDt(lastFrame[1].Timestamp, preState.lastTime)
              st == IntegrateLoop(SelectSeq(lastFrame, InRange), dt,
                                  imuCount, preState)
          IN /\ positions = st.pos
             /\ velocities = st.vel
             /\ cloud = st.cloud

----------------------------------------------------------------------------
(* Properties of the geometric fusion *)

\* p is within r (plus the tolerance) of the centre c
Within(p, c, r) ==
    /\ Distance2D(p, c) # NaN
    /\ Distance2D(p, c) <= r + epsilon

\* C10: fusion soundness: a probe of AllCirclesIntersectAtPoint that returns
\* (true, p) returns a p inside every disk it was given, and a fused point
\* that GeometricFusion2D returns from a successful probe lies within
\* alpha * R_i (plus the tolerance) of every input centre i, alpha being the
\* returned inflation factor.
C10_FusionSound ==
    /\ fProbe.ok =>
          \A i \in 1 .. Len(fPositions) :
              Within(fProbe.p, Centers(fPositions)[i],
                     Expanded(fProbe.alpha, fPositions[i].R))
    /\ (fPc = "done" /\ fSucceeded) =>
          \A i \in 1 .. Len(fPositions) :
              Within(Vec2(fResult.pos.X, fResult.pos.Y), Centers(fPositions)[i],
                     Expanded(fResult.alpha, fPositions[i].R))

\* the square of the exact distance of two centres
Dist2(a, b) == (a.X - b.X) * (a.X - b.X) + (a.Y - b.Y) * (a.Y - b.Y)

\* the sum r1 + r2 of the radii of a call with two estimates
RadiusSum == fPositions[1].R + fPositions[2].R

\* the call is made with two disks whose centres are d apart,
\* 1 <= d / (r1 + r2) <= 10
TwoDisksInRange ==
    /\ Len(fPositions) = 2
    /\ RadiusSum * RadiusSum <= Dist2(fPositions[1], fPositions[2])
    /\ Dist2(fPositions[1], fPositions[2]) <= 100 * RadiusSum * RadiusSum

\* p is on the segment from a to b, up to one length unit of rounding
OnSegment(p, a, b) ==
    /\ p.X # NaN /\ p.Y # NaN
    /\ Abs((p.X - a.X) * (b.Y - a.Y) - (p.Y - a.Y) * (b.X - a.X))
          <= Abs(b.X - a.X) + Abs(b.Y - a.Y)
    /\ (p.X - a.X) * (b.X - a.X) + (p.Y - a.Y) * (b.Y - a.Y) >= 0
    /\ (p.X - b.X) * (a.X - b.X) + (p.Y - b.Y) * (a.Y - b.Y) >= 0

\* C11: fusion minimality: for two disks with 1 <= d / (r1 + r2) <= 10 the
\* returned alpha is within 1e-3 of d / (r1 + r2), that is alpha * (r1 + r2)
\* is within 1e-3 * (r1 + r2) of d, and the fused point is on the segment
\* joining the two centres.  (1e-3 * (r1 + r2) is below one length unit for
\* the radii of the model; two units are allowed for the roundings.)
C11_FusionMinimal ==
    (fPc = "done" /\ TwoDisksInRange) =>
        /\ (Expanded(fResult.alpha, RadiusSum) - 2) * (Expanded(fResult.alpha, RadiusSum) - 2)
              <= Dist2(fPositions[1], fPositions[2])
        /\ Dist2(fPositions[1], fPositions[2])
              <= (Expanded(fResult.alpha, RadiusSum) + 2) * (Expanded(fResult.alpha, RadiusSum) + 2)
        /\ OnSegment(Vec2(fResult.pos.X, fResult.pos.Y),
                     Centers(fPositions)[1], Centers(fPositions)[2])

\* C12: for every input GeometricFusion2D terminates; it returns once the
\* bracket alphaMax - alphaMin is at most 1e-4, the returned alpha is in
\* [1, 10], and the radius field R of the returned estimate is that alpha.
C12_FusionTerminates ==
    /\ [](fPc = "done" =>
            /\ alphaMax - alphaMin <= Tolerance
            /\ AlphaOne <= fResult.alpha /\ fResult.alpha <= 10 * AlphaOne
            /\ fResult.pos.R = fResult.alpha)
    /\ (fPc = "loop") ~> (fPc = "done")

\* a call returned an alpha strictly inside the search interval
C12_Witness ==
    /\ fPc = "done"
    /\ AlphaOne + Tolerance < fResult.alpha
    /\ fResult.alpha < 10 * AlphaOne

\* C13: when no probed inflation factor gives the disks a common point,
\* GeometricFusion2D returns normally with alpha at the upper search bound
\* 10 and, as fused position, an intersection point of the disks at that
\* bound.
C13_BestEffortAtBound ==
    (fPc = "done" /\ ~fSucceeded) =>
        /\ fResult.alpha = 10 * AlphaOne
        /\ \A i \in 1 .. Len(fPositions) :
              Within(Vec2(fResult.pos.X, fResult.pos.Y), Centers(fPositions)[i],
                     Expanded(fResult.alpha, fPositions[i].R))

\* C14: Procrustes called with an empty list, or with two lists of different
\* lengths, fails with a distinguishable InvalidInput outcome; it does not
\* return the ordinary-looking result (empty point list, zero centroid,
\* scale 0).
C14_InvalidInputRejected ==
    (pPc = "done" /\ ProcrustesInvalid(source, target)) =>
        /\ pResult.status = "InvalidInput"
        /\ <<pResult.aligned, pResult.centroid, pResult.scale>> # <<<<>>, ZeroPoint, 0>>

\* the point pt is at Euclidean distance at most r from (x, y), in exact
\* arithmetic (no point is at a negative distance)
DistanceAtMost(pt, x, y, r) ==
    /\ r >= 0
    /\ (pt.X - x) * (pt.X - x) + (pt.Y - y) * (pt.Y - y) <= r * r

\* the step is a RadiusSearch call that returned
RadiusSearchStep == lastQuery' # lastQuery /\ lastQuery'.op = "RadiusSearch"

\* the result of the RadiusSearch step holds, as often as the cloud does,
\* the points at distance at most the radius, and nothing else
ExactlyWithin ==
    \A pt \in CloudGrid :
        Count(lastQuery'.result, pt) =
            IF DistanceAtMost(pt, lastQuery'.x, lastQuery'.y, lastQuery'.radius)
            THEN Count(cloud, pt) ELSE 0

\* C15: RadiusSearch(x, y, r) returns exactly the recorded points whose
\* Euclidean distance to (x, y) is at most r (distance exactly r included,
\* with multiplicity), an empty result when none qualifies, and leaves the
\* point set unchanged.
C15_RadiusSearchExact ==
    [][RadiusSearchStep => (ExactlyWithin /\ cloud' = cloud /\ tree' = tree)]_vars

\* the same for the calls with a radius that is not negative
RadiusSearchExactFromZero ==
    [][(RadiusSearchStep /\ lastQuery'.radius >= 0) =>
          (ExactlyWithin /\ cloud' = cloud /\ tree' = tree)]_vars

\* the step is a GetPoints call that returned
GetPointsStep == lastQuery' # lastQuery /\ lastQuery'.op = "GetPoints"

\* C16: after any sequence of AddPoint and Clear calls, GetPoints returns a
\* copy holding exactly the points added since the most recent Clear (or
\* since construction), each once per AddPoint call; a later AddPoint or
\* Clear does not alter a list returned earlier.
C16_GetPointsSnapshot ==
    [][/\ GetPointsStep =>
            /\ Len(lastQuery'.result) = Len(sinceClear)
            /\ \A pt \in CloudGrid :
                  Count(lastQuery'.result, pt) = Count(sinceClear, pt)
       /\ (lastQuery.op = "GetPoints" /\ cloud' # cloud) =>
            lastQuery'.result = lastQuery.result]_vars

\* a list of two points returned by GetPoints has outlived a Clear and an
\* AddPoint
C16_Witness ==
    /\ lastQuery.op = "GetPoints"
    /\ Len(lastQuery.result) = 2
    /\ Len(cloud) = 1
    /\ cloud[1] # lastQuery.result[1]

\* the step changed the buffer without an AddData and without returning
\* frames: it is a ClearData call
ClearDataStep == dataMap' # dataMap /\ nAdds' = nAdds /\ delivered' = delivered

\* C17: ClearData discards every buffered sample: after it the buffer is
\* empty, GetAlignedData returns no frame for any sensor count, and the
\* synchronizer is in the state of a freshly constructed one.
C17_ClearDataResets ==
    [][ClearDataStep =>
          /\ dataMap' = EmptyMap
          /\ \A n \in 0 .. (MaxImu + 1) :
                /\ GetAlignedDataOf(dataMap', n).aligned = <<>>
                /\ GetAlignedDataOf(dataMap', n).dataMap = EmptyMap]_vars

\* a buffer holding one sample of a two-sensor system, which no
\* GetAlignedData can return, has been emptied
C17_Witness ==
    /\ imuCount = 2
    /\ nAdds = 1
    /\ dataMap = EmptyMap
    /\ delivered = <<>>

\* the step is a Clear call on a cloud that had points
ClearStep == sinceClear # <<>> /\ sinceClear' = <<>>

\* C18: Clear empties the index: afterwards GetPoints and RadiusSearch return
\* nothing, the k-d tree is dropped together with the point list, the index
\* is in the state of a freshly constructed one, and one AddPoint after
\* Clear leaves exactly one point.
C18_ClearResets ==
    /\ [][ClearStep =>
            /\ cloud' = <<>>
            /\ tree' = NilTree
            /\ [i \in 1 .. Len(cloud') |-> cloud'[i]] = <<>>
            /\ \A x \in QueryX, radius \in QueryRadius :
                  RadiusSearchOf(cloud', x, 0, radius) = <<>>]_vars
    /\ [](Len(sinceClear) = 1 => (cloud = sinceClear /\ tree = NewTree(cloud)))

\* a cloud that held two points has been cleared and has received one point
C18_Witness ==
    /\ lastQuery.op = "GetPoints"
    /\ Len(lastQuery.result) = 2
    /\ Len(cloud) = 1
    /\ tree = NewTree(cloud)
    /\ cloud[1] = lastQuery.result[2]

\* the step is a refinement of a fused estimate
RefinementStep == lastQuery' # lastQuery /\ lastQuery'.op = "refine"

\* the neighbours RadiusSearch returns around the fused point of the step,
\* with the fused radius
NeighborsOfStep ==
    RadiusSearchOf(cloud, lastQuery'.x, lastQuery'.y, lastQuery'.radius)

\* C20: the final position emitted for a frame is the arithmetic mean of the
\* history points RadiusSearch returns around the fused point with the
\* fused radius when that result is not empty, and the raw fused
\* coordinates, unchanged, when it is empty.
C20_RefinementMean ==
    [][RefinementStep =>
          IF NeighborsOfStep # <<>>
          THEN /\ lastQuery'.final.X * Len(NeighborsOfStep) = SumOf(NeighborsOfStep, "X")
               /\ lastQuery'.final.Y * Len(NeighborsOfStep) = SumOf(NeighborsOfStep, "Y")
          ELSE /\ lastQuery'.final.X = lastQuery'.x
               /\ lastQuery'.final.Y = lastQuery'.y]_vars

\* a refinement averaged two different history points
C20_Witness ==
    /\ lastQuery.op = "refine"
    /\ Len(lastQuery.result) = 2
    /\ lastQuery.result[1] # lastQuery.result[2]
    /\ lastQuery.final # [X |-> lastQuery.x, Y |-> lastQuery.y]

\* C19: the reference geometry of a system built by NewIMUFusionSystem(n)
\* has exactly n points and is never modified afterwards, so the frame body
\* always calls Procrustes with point lists of equal cardinality.
C19_ReferenceMatchesSensors ==
    /\ [](Len(reference) = imuCount)
    /\ [][reference' = reference]_vars
    /\ [](alignCall.made => Len(alignCall.source) = Len(alignCall.target))

\* the part of C19 that the code keeps: the reference is read-only, and the
\* list of current positions has one entry per sensor
ReferenceReadOnly ==
    /\ [][reference' = reference]_vars
    /\ [](alignCall.made =>
            (Len(alignCall.source) = imuCount /\ alignCall.target = Reference))

\* every Procrustes call of the frame body is an invalid one unless there
\* are four sensors
CallsInvalidUnlessFour ==
    (alignCall.made /\ imuCount # 4) =>
        ProcrustesInvalid(alignCall.source, alignCall.target)

----------------------------------------------------------------------------
(* Properties of the frame body *)

\* C21: for every processed frame the dt used for the integration and for
\* the uncertainty radius is strictly positive: it is the frame timestamp
\* minus lastTime, and a zero or negative difference is replaced by 1e-9 s
\* (one time unit) before any use.
C21_DtStrictlyPositive ==
    lastFrame # <<>> =>
        /\ dtUsed > 0
        /\ dtUsed = IF lastFrame[1].Timestamp - preState.lastTime > 0
                    THEN lastFrame[1].Timestamp - preState.lastTime
                    ELSE 1
        /\ ~panicked =>
              \A i \in 0 .. (imuCount - 1) :
                 updates[i] = 1 =>
                    \E k \in 1 .. Len(lastFrame) :
                       /\ lastFrame[k].IMUID = i
                       /\ velocities[i].X = preState.vel[i].X
                              + lastFrame[k].Acceleration[1] * dtUsed
                       /\ positions[i].X = preState.pos[i].X + velocities[i].X * dtUsed

\* a frame whose timestamp is not after lastTime has been processed with
\* a sample of non-zero acceleration
C21_Witness ==
    /\ lastFrame # <<>>
    /\ lastFrame[1].Timestamp <= preState.lastTime
    /\ dtUsed = 1
    /\ velocities # preState.vel

\* C22: for every processed frame each sensor's integration state is updated
\* exactly once and exactly one history point per sensor is appended: no
\* sensor is integrated twice in a frame and none is skipped.
C22_OncePerSensor ==
    lastFrame # <<>> =>
        /\ \A i \in 0 .. (imuCount - 1) : updates[i] = 1
        /\ Len(cloud) = Len(preState.cloud) + imuCount

\* the frame holds exactly one sample of every sensor
OneSampleEach(frame) ==
    \A i \in 0 .. (imuCount - 1) :
        Cardinality({k \in 1 .. Len(frame) : frame[k].IMUID = i}) = 1

\* the same for the frames that hold exactly one sample of every sensor
OncePerSensorOfProperFrame ==
    (lastFrame # <<>> /\ OneSampleEach(lastFrame)) =>
        /\ \A i \in 0 .. (imuCount - 1) : updates[i] = 1
        /\ Len(cloud) = Len(preState.cloud) + imuCount

\* reference geometries a run could have been built with
ReferenceSet == PointLists \cup {Reference}

----------------------------------------------------------------------------
(* Further properties of the Synchronizer and of the orchestrator *)

\* the frames the step delivered all have a timestamp before t
DeliversOnlyBefore(t) ==
    \A k \in (Len(delivered) + 1) .. Len(delivered') :
        delivered'[k][1].Timestamp < t

\* C24: a timestamp key that holds more than imuCount samples is never
\* treated as complete: GetAlignedData never returns or removes it, and it
\* blocks every later timestamp from being delivered until ClearData is
\* called.
C24_OverfullKeyBlocks ==
    [][\A t \in DOMAIN dataMap :
          Len(dataMap[t]) > imuCount =>
             \/ ClearDataStep
             \/ /\ t \in DOMAIN dataMap'
                /\ Len(dataMap'[t]) >= Len(dataMap[t])
                /\ DeliversOnlyBefore(t)]_vars

\* a GetAlignedData call met an over-full key followed by a complete one
\* and returned nothing
C24_Witness ==
    /\ preMap = dataMap
    /\ lastAligned = <<>>
    /\ \E t, u \in DOMAIN dataMap :
          /\ t < u
          /\ Len(dataMap[t]) > imuCount
          /\ Len(dataMap[u]) = imuCount

\* C25: lastTime never decreases over the frames the orchestrator processes:
\* after each frame lastTime is that frame's timestamp, and every processed
\* frame's timestamp is at least the lastTime the previous one left, within
\* a batch and across GetAlignedData batches.
C25_LastTimeMonotonic ==
    /\ [](lastFrame # <<>> =>
            /\ lastTime = lastFrame[1].Timestamp
            /\ lastFrame[1].Timestamp >= preState.lastTime)
    /\ [][lastTime' >= lastTime]_vars

\* the part of C25 that the code keeps: lastTime is the timestamp of the
\* last processed frame, and it does not decrease within one batch
LastTimeIsFrameTime ==
    /\ [](lastFrame # <<>> => lastTime = lastFrame[1].Timestamp)
    /\ [][(alignedFrames # <<>> /\ Len(alignedFrames') > 0
              /\ alignedFrames' = Tail(alignedFrames)) =>
             alignedFrames'[1][1].Timestamp > lastTime']_vars

\* C26: DataAcquisition.Stop can be performed only once: the first call
\* closes the stop channel and waits for the producers, and a second call on
\* the same instance does not return normally as a no-op: it fails by
\* closing the stop channel that is already closed.
C26_StopOnlyOnce ==
    /\ [][(mainPc = "running" /\ mainPc' # "running") =>
             (stopChan = "open" /\ stopChan' = "closed" /\ mainPc' = "waiting")]_vars
    /\ [](mainPc = "stopped" =>
             (stopChan = "closed" /\ \A p \in Producers : prodPc[p] = "done"))
    /\ [][(mainPc = "stopped" /\ mainPc' # "stopped") =>
             (stopChan = "closed" /\ mainPc' = "panic" /\ panicked' /\ ~alive')]_vars

\* the second Stop has panicked after the producers had added samples
C26_Witness ==
    /\ mainPc = "panic"
    /\ panicked
    /\ stopChan = "closed"
    /\ addedLog # EmptyBag

====
